---------------------------- MODULE Spec2Model ----------------------------
(***************************************************************************)
(* Rolling-ball background estimation: the Python wrapper CRollingBall of *)
(* storm_analysis/rolling_ball_bgr/rolling_ball_lib_c.py and the native   *)
(* engine (rolling_ball_lib: init / estimateBg / cleanup) it drives.      *)
(*                                                                         *)
(* Numbers.  ball_radius is an integer number of pixels.  smoothing_sigma  *)
(* is carried in halves of a pixel (sigma2 = 2 * sigma).  Every float64    *)
(* array is carried in fixed point, in units of 1/Scale: additions and     *)
(* subtractions are exact, numpy.sqrt is rounded to the nearest unit, and  *)
(* sqrt of a negative number is NaN.  The Gaussian of sigma = 0.5 is the   *)
(* separable filter whose taps are scipy's weights rounded to eighths.     *)
(***************************************************************************)
EXTENDS Integers, FiniteSets, Sequences, TLC

\* ------------------------------------------------------------------ bounds
\* Largest ball_radius tried by the single-instance specification.
MaxRadius == 10
\* Radii -NegRadius .. 0 are the invalid radii tried.
NegRadius == 3
\* Largest ball_radius tried when two instances interleave.
PairRadius == 3
\* Images are ImageSize x ImageSize pixels.
ImageSize == 5

\* --------------------------------------------------------------- numerics
\* Taps of the Gaussian kernel of sigma = 0.5 at x = -1, 0, 1, in eighths
\* (exp(-2 x^2) normalised: 0.106, 0.787, 0.106; the taps at |x| = 2 are
\* 0.0003 and round to nothing).
GaussTaps == [x \in -1..1 |-> IF x = 0 THEN 6 ELSE 1]
TapSum == GaussTaps[-1] + GaussTaps[0] + GaussTaps[1]
\* One fixed-point unit is 1/Scale: a 2-D pass of the taps is exact in it.
Scale == TapSum * TapSum

\* numpy.sqrt of a negative number.
NaN == -1
\* A handle that is None (NULL once it crosses ctypes).
None == 0

Inst == {"a", "b"}
Addr == 1..Cardinality(Inst)
Pixels == (1..ImageSize) \X (1..ImageSize)
ImgIds == {"flat", "bump"}

Abs(n) == IF n < 0 THEN -n ELSE n

\* ----------------------------------------------------------------- images
ConstImage(v) == [p \in Pixels |-> v]
Centre == (ImageSize + 1) \div 2
\* A flat image of value b with one pixel of value b + h in the middle.
SpikeImage(b, h) ==
    [p \in Pixels |-> IF p = <<Centre, Centre>> THEN b + h ELSE b]

ArrayMax(img) == CHOOSE m \in {img[p] : p \in Pixels} :
                    \A q \in Pixels : img[q] <= m
ArrayMin(img) == CHOOSE m \in {img[p] : p \in Pixels} :
                    \A q \in Pixels : img[q] >= m

\* --------------------------------------------------------------- the kernel
\* int(round(ball_radius * 0.5)): Python 3 rounds a half to the even integer.
RoundHalfEven(r) ==
    LET m == r \div 2
    IN  IF r % 2 = 0 THEN m ELSE IF m % 2 = 0 THEN m ELSE m + 1

\* Variants of ball_size: floor, round half up (Python 2), no halving.
ball_size_floor(r) == r \div 2
ball_size_halfup(r) == (r + 1) \div 2
ball_size_radius(r) == r

ball_size(r) == RoundHalfEven(r)

\* The side of the array numpy.zeros is asked for, and init is given.
KernelSide(r) == 2 * ball_size(r) + 1

\* Variants of br: the radius left unsquared, the half-width squared.
br_unsquared(r) == r
br_of_size(r) == ball_size(r) * ball_size(r)

br(r) == r * r

\* ball[x,y] before the square root.
BallCell(r, dx, dy) == br(r) - (dx * dx + dy * dy)

RECURSIVE ISqrtIn(_, _, _)
\* The largest k in lo..hi with k * k <= n (lo * lo <= n < (hi+1) * (hi+1)).
ISqrtIn(n, lo, hi) ==
    IF lo = hi THEN lo
    ELSE LET mid == (lo + hi + 1) \div 2
         IN  IF mid * mid <= n THEN ISqrtIn(n, mid, hi)
             ELSE ISqrtIn(n, lo, mid - 1)

\* numpy.sqrt of h, in units of 1/Scale, rounded to the nearest unit.
Sqrt(h) ==
    IF h < 0 THEN NaN
    ELSE (ISqrtIn(4 * h * Scale * Scale, 0, 2 * (h + 1) * Scale) + 1) \div 2

Offsets(bs) == (-bs..bs) \X (-bs..bs)

\* The array the constructor hands to init (KernelSide(r) >= 1).
BuildBall(r) ==
    [d \in Offsets(ball_size(r)) |-> Sqrt(BallCell(r, d[1], d[2]))]

\* ------------------------------------------------------- the native engine
\* A heap cell that holds no engine.
Free == [size |-> 0, ball |-> <<>>]

\* init(ball, size): a fresh handle holding its own copy of the kernel.
rball_alloc(h) ==
    CHOOSE a \in Addr : h[a] = Free /\ \A b \in Addr : b < a => h[b] # Free

rball_init(h, ball, size) ==
    [h EXCEPT ![rball_alloc(h)] = [size |-> size, ball |-> ball]]

\* cleanup(handle): releases the engine behind the handle.
rball_cleanup(h, handle) ==
    IF handle = None THEN h ELSE [h EXCEPT ![handle] = Free]

SetMin(S) == CHOOSE m \in S : \A x \in S : m <= x

Lo(n, bs) == IF n - bs < 1 THEN 1 ELSE n - bs
Hi(n, bs) == IF n + bs > ImageSize THEN ImageSize ELSE n + bs

\* estimateBg(handle, image, background, rows, cols) on a live handle: at
\* every pixel the minimum, over the kernel offsets that are defined and
\* fall inside the image, of image[p + d] - kernel[d].
rball_estimateBg(k, sm) ==
    LET bs == (k.size - 1) \div 2
    IN  [p \in Pixels |->
            SetMin({ sm[q] - k.ball[<<q[1] - p[1], q[2] - p[2]>>] :
                     q \in { x \in (Lo(p[1], bs)..Hi(p[1], bs))
                                    \X (Lo(p[2], bs)..Hi(p[2], bs)) :
                               k.ball[<<x[1] - p[1], x[2] - p[2]>>] # NaN } })]

\* --------------------------------------------------------------- smoothing
\* image.astype(numpy.float64): the same values, as fixed-point reals.
ToFloat(img) == [p \in Pixels |-> img[p] * Scale]

\* scipy's boundary mode 'reflect': d c b a | a b c d | d c b a.
Reflect(n) == IF n < 1 THEN 1 - n ELSE IF n > ImageSize THEN 2 * ImageSize + 1 - n ELSE n

\* scipy.ndimage.gaussian_filter(image, sigma): an axis whose sigma is not
\* above 1e-15 is left unfiltered; sigma = 0.5 filters both axes.
gaussian_filter(img, sigma2) ==
    IF sigma2 <= 0 THEN img
    ELSE [p \in Pixels |->
            ( (GaussTaps[-1] * GaussTaps[-1]) * img[<<Reflect(p[1] - 1), Reflect(p[2] - 1)>>]
            + (GaussTaps[-1] * GaussTaps[0])  * img[<<Reflect(p[1] - 1), p[2]>>]
            + (GaussTaps[-1] * GaussTaps[1])  * img[<<Reflect(p[1] - 1), Reflect(p[2] + 1)>>]
            + (GaussTaps[0] * GaussTaps[-1])  * img[<<p[1], Reflect(p[2] - 1)>>]
            + (GaussTaps[0] * GaussTaps[0])   * img[p]
            + (GaussTaps[0] * GaussTaps[1])   * img[<<p[1], Reflect(p[2] + 1)>>]
            + (GaussTaps[1] * GaussTaps[-1])  * img[<<Reflect(p[1] + 1), Reflect(p[2] - 1)>>]
            + (GaussTaps[1] * GaussTaps[0])   * img[<<Reflect(p[1] + 1), p[2]>>]
            + (GaussTaps[1] * GaussTaps[1])   * img[<<Reflect(p[1] + 1), Reflect(p[2] + 1)>>]
            ) \div Scale]

\* numpy.zeros(image.shape)
Zeros == [p \in Pixels |-> 0]

\* Variant of AddBack: the radius is not added back.
AddBackNothing(ball_image, r) == ball_image

\* ball_image + self.ball_radius
AddBack(ball_image, r) == [p \in Pixels |-> ball_image[p] + r * Scale]

\* image - self.estimateBG(image)
Subtract(img, bg) == [p \in Pixels |-> img[p] * Scale - bg[p]]

\* ------------------------------------------------------------------- state
VARIABLES
    images,           \* the caller's image arrays, by name
    status,           \* per instance: "new", "live", "disposed", "failed"
    ball_radius,      \* self.ball_radius
    smoothing_sigma,  \* self.smoothing_sigma, in halves of a pixel
    c_rball,          \* self.c_rball: the engine handle, or None
    raised,           \* the exception the constructor raised, if any
    heap,             \* the native engines, by handle
    ret,              \* per instance: what its latest estimateBG/removeBG returned
    nullCalls,        \* estimateBg of the engine was handed a NULL handle
    crashed           \* the process died in native code

vars == <<images, status, ball_radius, smoothing_sigma, c_rball, raised,
          heap, ret, nullCalls, crashed>>

NoRet == [op |-> "none", img |-> "none", handle |-> None, val |-> <<>>]

\* Values the caller's images are filled with.
FlatValues == {0, 100}
SpikeShapes == {<<10, 50>>, <<0, 1>>, <<10, -4>>}
\* smoothing_sigma: 0 and 0.5 are valid, -0.5 is not.
Sigmas == {-1, 0, 1}

InitWith(ids, flats, shapes) ==
    /\ \E v \in flats, sh \in shapes :
         images = [k \in ids |->
                     IF k = "flat" THEN ConstImage(v)
                     ELSE SpikeImage(sh[1], sh[2])]
    /\ status = [i \in Inst |-> "new"]
    /\ ball_radius = [i \in Inst |-> 0]
    /\ smoothing_sigma = [i \in Inst |-> 0]
    /\ c_rball = [i \in Inst |-> None]
    /\ raised = [i \in Inst |-> "none"]
    /\ heap = [a \in Addr |-> Free]
    /\ ret = [i \in Inst |-> NoRet]
    /\ nullCalls = FALSE
    /\ crashed = FALSE

\* ----------------------------------------------------------------- actions
\* rb = CRollingBall(r, s)
CRollingBall(i, r, s) ==
    /\ ~crashed
    /\ status[i] = "new"
    /\ ball_radius' = [ball_radius EXCEPT ![i] = r]
    /\ smoothing_sigma' = [smoothing_sigma EXCEPT ![i] = s]
    /\ IF KernelSide(r) < 0
       THEN \* numpy.zeros refuses a negative dimension
            /\ raised' = [raised EXCEPT ![i] = "ValueError"]
            /\ status' = [status EXCEPT ![i] = "failed"]
            /\ UNCHANGED <<c_rball, heap>>
       ELSE /\ heap' = rball_init(heap, BuildBall(r), KernelSide(r))
            /\ c_rball' = [c_rball EXCEPT ![i] = rball_alloc(heap)]
            /\ status' = [status EXCEPT ![i] = "live"]
            /\ UNCHANGED raised
    /\ UNCHANGED <<images, ret, nullCalls, crashed>>

\* Variant of cleanup: the handle is kept on the class, so that one
\* instance's cleanup disposes of every instance's engine.
cleanup_shared(i) ==
    /\ ~crashed
    /\ status[i] \in {"live", "disposed"}
    /\ heap' = [a \in Addr |-> Free]
    /\ c_rball' = [j \in Inst |-> None]
    /\ status' = [status EXCEPT ![i] = "disposed"]
    /\ UNCHANGED <<images, ball_radius, smoothing_sigma, raised, ret,
                   nullCalls, crashed>>

\* rb.cleanup()
cleanup(i) ==
    /\ ~crashed
    /\ status[i] \in {"live", "disposed"}
    /\ heap' = rball_cleanup(heap, c_rball[i])
    /\ c_rball' = [c_rball EXCEPT ![i] = None]
    /\ status' = [status EXCEPT ![i] = "disposed"]
    /\ \/ crashed' = crashed
       \/ \* cleanup(NULL) in native code may dereference the null pointer
          /\ c_rball[i] = None
          /\ crashed' = TRUE
    /\ UNCHANGED <<images, ball_radius, smoothing_sigma, raised, ret,
                   nullCalls>>

\* What the caller gets from the background bg of image k, estimated by
\* the engine behind handle.
Returned(op, k, handle, bg) ==
    [op |-> op, img |-> k, handle |-> handle,
     val |-> IF op = "removeBG" THEN Subtract(images[k], bg) ELSE bg]

\* The body of estimateBG, on behalf of op.
RunEstimate(i, k, op) ==
    /\ ~crashed
    /\ status[i] \in {"live", "disposed"}
    /\ LET image == ToFloat(images[k])
           sm_image == gaussian_filter(image, smoothing_sigma[i])
       IN  IF c_rball[i] # None
           THEN LET ball_image == rball_estimateBg(heap[c_rball[i]], sm_image)
                    out == Returned(op, k, c_rball[i],
                                    AddBack(ball_image, ball_radius[i]))
                IN  /\ ret' = [ret EXCEPT ![i] = out]
                    /\ UNCHANGED <<nullCalls, crashed>>
           ELSE \* None crosses ctypes as NULL; what the engine does with it
                \* is undefined: it dies, or it returns leaving ball_image
                \* as numpy.zeros made it.
                /\ nullCalls' = TRUE
                /\ \/ crashed' = TRUE /\ UNCHANGED ret
                   \/ /\ UNCHANGED crashed
                      /\ ret' = [ret EXCEPT ![i] =
                            Returned(op, k, None,
                                     AddBack(Zeros, ball_radius[i]))]
    /\ UNCHANGED <<images, status, ball_radius, smoothing_sigma, c_rball,
                   raised, heap>>

\* Variant of estimateBG: the image is smoothed in place, in the caller's
\* array.
estimateBG_inplace(i, k) ==
    /\ ~crashed
    /\ status[i] = "live"
    /\ LET sm_image == gaussian_filter(ToFloat(images[k]), smoothing_sigma[i])
           ball_image == rball_estimateBg(heap[c_rball[i]], sm_image)
       IN  /\ ret' = [ret EXCEPT ![i] =
                        Returned("estimateBG", k, c_rball[i],
                                 AddBack(ball_image, ball_radius[i]))]
           /\ images' = [images EXCEPT ![k] =
                           [p \in Pixels |-> sm_image[p] \div Scale]]
    /\ UNCHANGED <<status, ball_radius, smoothing_sigma, c_rball, raised,
                   heap, nullCalls, crashed>>

\* rb.estimateBG(images[k])
estimateBG(i, k) == RunEstimate(i, k, "estimateBG")

\* rb.removeBG(images[k])
removeBG(i, k) == RunEstimate(i, k, "removeBG")

\* The caller of the two-instance runs holds one spiked image.
Init == InitWith({"bump"}, {0}, {<<10, 1>>})

\* Two instances, valid configurations, every interleaving.
Next ==
    \E i \in Inst :
        \/ \E r \in 1..PairRadius, s \in {0, 1} : CRollingBall(i, r, s)
        \/ \E k \in DOMAIN images : estimateBG(i, k)
        \/ \E k \in DOMAIN images : removeBG(i, k)
        \/ cleanup(i)

Spec == Init /\ [][Next]_vars

InitOne == InitWith(ImgIds, FlatValues, SpikeShapes)

\* One instance, every configuration a caller can pass.
NextOne ==
    \/ \E r \in (-NegRadius)..MaxRadius, s \in Sigmas : CRollingBall("a", r, s)
    \/ \E k \in DOMAIN images : estimateBG("a", k)
    \/ \E k \in DOMAIN images : removeBG("a", k)
    \/ cleanup("a")

SpecOne == InitOne /\ [][NextOne]_vars

\* ------------------------------------------------------------------ claims
Live(i) == status[i] = "live"
\* ball_radius > 0 and smoothing_sigma >= 0.
Valid(i) == ball_radius[i] >= 1 /\ smoothing_sigma[i] >= 0
\* The latest call on i returned, and its engine call had a real handle.
Answered(i) == ret[i].op # "none" /\ ret[i].handle # None
KernelOf(i) == heap[c_rball[i]]

\* C1: once cleanup() has run, estimateBG/removeBG never hand the null
\* handle to the engine's estimate routine and never return an image
\* computed from it.
C1_DisposedHandleNeverUsed ==
    /\ ~nullCalls
    /\ \A i \in Inst : ret[i].op # "none" => ret[i].handle # None

\* C2: a constructor given ball_radius <= 0 or smoothing_sigma < 0 fails
\* with InvalidParameter and creates no engine handle.
C2_InvalidParameterRejected ==
    \A i \in Inst :
        (status[i] # "new" /\ ~Valid(i)) =>
            /\ status[i] = "failed"
            /\ raised[i] = "InvalidParameter"
            /\ c_rball[i] = None

\* C5: for every ball_radius >= 1 the kernel held by the engine is a square
\* of odd side 2*ball_size+1 over the offsets -ball_size..ball_size, where
\* ball_size is the integer nearest to ball_radius/2 (a half goes to the
\* even neighbour), and its centre cell equals ball_radius; for
\* ball_radius = 10 that is ball_size 5, side 11, centre 10.0.
C5_KernelShape ==
    \A i \in Inst :
        (Live(i) /\ ball_radius[i] >= 1) =>
            LET k == KernelOf(i)
                b == (k.size - 1) \div 2
                r == ball_radius[i]
            IN  /\ k.size = 2 * b + 1
                /\ Abs(2 * b - r) <= 1
                /\ (Abs(2 * b - r) = 1 => b % 2 = 0)
                /\ DOMAIN k.ball = Offsets(b)
                /\ k.ball[<<0, 0>>] = r * Scale
                /\ (r = 10 => b = 5 /\ k.size = 11
                               /\ k.ball[<<0, 0>>] = 10 * Scale)

C5_Witness ==
    \E i \in Inst :
        /\ Live(i) /\ ball_radius[i] = 10
        /\ KernelOf(i).size = 11
        /\ KernelOf(i).ball[<<0, 0>>] = 10 * Scale

\* C6 as stated: for every positive ball_radius the side of the kernel given
\* to init is 2*floor(ball_radius*0.5)+1.
C6_SideIsFloor ==
    \A i \in Inst :
        (Live(i) /\ ball_radius[i] >= 1) =>
            KernelOf(i).size = 2 * (ball_radius[i] \div 2) + 1

\* C6 as amended: the side is 2*round(ball_radius*0.5)+1 with halves rounded
\* to even: 2*floor(ball_radius*0.5)+1 unless ball_radius leaves 3 modulo 4,
\* and 2 more than that when it does.
C6_SideIsRounded ==
    \A i \in Inst :
        (Live(i) /\ ball_radius[i] >= 1) =>
            KernelOf(i).size =
                2 * (ball_radius[i] \div 2) + 1
                + (IF ball_radius[i] % 4 = 3 THEN 2 ELSE 0)

C6_Witness ==
    \E i \in Inst :
        /\ Live(i) /\ ball_radius[i] % 4 = 3
        /\ KernelOf(i).size = 2 * (ball_radius[i] \div 2) + 3

\* C10: for every integer ball_radius >= 1 every cell of the kernel has
\* ball_radius^2 - dx^2 - dy^2 >= 0 (at the corner, 2*ball_size^2 <=
\* ball_radius^2), so no cell of the kernel given to init is NaN.
C10_NoNaNCell ==
    \A i \in Inst :
        (Live(i) /\ ball_radius[i] >= 1) =>
            LET k == KernelOf(i)
                b == (k.size - 1) \div 2
                r == ball_radius[i]
            IN  /\ 2 * b * b <= r * r
                /\ \A d \in DOMAIN k.ball :
                      /\ r * r - d[1] * d[1] - d[2] * d[2] >= 0
                      /\ k.ball[d] # NaN

C10_Witness ==
    \E i \in Inst :
        /\ Live(i) /\ ball_radius[i] = 3
        /\ KernelOf(i).size = 5
        /\ KernelOf(i).ball[<<2, 2>>] = Scale

\* The image the latest call on i was given.
ImageOf(i) == images[ret[i].img]
\* What estimateBG smooths it to.
SmoothedOf(i) == gaussian_filter(ToFloat(ImageOf(i)), smoothing_sigma[i])
IsUniform(img) == ArrayMin(img) = ArrayMax(img)
\* The pixels whose whole kernel footprint lies inside the image.
Interior(b) ==
    {p \in Pixels : /\ p[1] - b >= 1 /\ p[1] + b <= ImageSize
                    /\ p[2] - b >= 1 /\ p[2] + b <= ImageSize}

\* C3: on an image of constant value V that is at least as large as the
\* kernel, with a valid configuration, estimateBG returns V at every pixel
\* and removeBG returns 0 at every pixel.
C3_UniformImage ==
    \A i \in Inst :
        ( /\ Valid(i) /\ Answered(i)
          /\ IsUniform(ImageOf(i))
          /\ KernelSide(ball_radius[i]) <= ImageSize ) =>
            \A p \in Pixels :
                ret[i].val[p] = IF ret[i].op = "estimateBG"
                                THEN ImageOf(i)[p] * Scale
                                ELSE 0

C3_Witness ==
    \E i \in Inst :
        /\ Valid(i) /\ Answered(i)
        /\ ret[i].op = "removeBG" /\ ret[i].img = "flat"
        /\ ImageOf(i)[<<1, 1>>] = 100
        /\ smoothing_sigma[i] = 1
        /\ KernelSide(ball_radius[i]) = ImageSize
        /\ ArrayMin(ret[i].val) = 0 /\ ArrayMax(ret[i].val) = 0

\* C4: with a valid configuration, at every interior pixel the background
\* estimateBG returns is not above the smoothed image.
C4_BelowSmoothed ==
    \A i \in Inst :
        (Valid(i) /\ Answered(i) /\ ret[i].op = "estimateBG") =>
            \A p \in Interior(ball_size(ball_radius[i])) :
                ret[i].val[p] <= SmoothedOf(i)[p]

C4_Witness ==
    \E i \in Inst :
        /\ Valid(i) /\ Answered(i) /\ ret[i].op = "estimateBG"
        /\ ball_radius[i] = 2
        /\ <<Centre, Centre>> \in Interior(ball_size(ball_radius[i]))
        /\ ret[i].val[<<Centre, Centre>>] < SmoothedOf(i)[<<Centre, Centre>>]

\* C7: a call of estimateBG or removeBG on a live instance leaves the
\* caller's images, the configuration and the engine handle as they were
\* and the instance live, and what a call returns depends only on the
\* configuration and the image, not on the calls made before it.
SameAnswer(i, j) ==
    ( /\ Answered(i) /\ Answered(j)
      /\ ball_radius[i] = ball_radius[j]
      /\ smoothing_sigma[i] = smoothing_sigma[j]
      /\ ret[i].op = ret[j].op /\ ret[i].img = ret[j].img ) =>
        ret[i].val = ret[j].val

CallFrame(i) ==
    (Live(i) /\ ret'[i] # ret[i]) =>
        /\ images' = images
        /\ ball_radius' = ball_radius
        /\ smoothing_sigma' = smoothing_sigma
        /\ c_rball' = c_rball
        /\ heap' = heap
        /\ Live(i)'

C7_CallsChangeNothing ==
    /\ [](\A i, j \in Inst : SameAnswer(i, j))
    /\ [][\A i \in Inst : CallFrame(i)]_vars

C7_Witness ==
    /\ Live("a") /\ Live("b")
    /\ ball_radius["a"] = ball_radius["b"]
    /\ smoothing_sigma["a"] = 1 /\ smoothing_sigma["b"] = 1
    /\ Answered("a") /\ Answered("b")
    /\ ret["a"].op = "estimateBG" /\ ret["b"].op = "estimateBG"
    /\ ret["a"].val = ret["b"].val
    /\ c_rball["a"] # c_rball["b"]

\* C8: every live instance holds a handle of its own, behind which the
\* engine holds the kernel of that instance's radius, whatever the other
\* instance has done; the cleanup of one instance leaves the other's
\* handle, kernel and results as they were.
OwnEngine(i) ==
    Live(i) =>
        /\ c_rball[i] # None
        /\ KernelOf(i) = [size |-> KernelSide(ball_radius[i]),
                          ball |-> BuildBall(ball_radius[i])]
        /\ \A j \in Inst \ {i} : Live(j) => c_rball[j] # c_rball[i]

CleanupFrame(i) ==
    (Live(i) /\ status'[i] = "disposed") =>
        \A j \in Inst \ {i} :
            /\ c_rball'[j] = c_rball[j]
            /\ status'[j] = status[j]
            /\ ret'[j] = ret[j]
            /\ c_rball[j] # None => heap'[c_rball[j]] = heap[c_rball[j]]

C8_IndependentHandles ==
    /\ [](\A i \in Inst : OwnEngine(i))
    /\ [][\A i \in Inst : CleanupFrame(i)]_vars

C8_Witness ==
    /\ status["a"] = "disposed" /\ c_rball["a"] = None
    /\ Live("b") /\ c_rball["b"] = 2 /\ heap[1] = Free
    /\ Answered("b")

\* C9: on an image with one narrow spike on a flat background, with the
\* same smoothing, the maximum of estimateBG for the larger of two valid
\* radii is not above the maximum for the smaller.
IsSpike(img) ==
    /\ img[<<Centre, Centre>>] > img[<<1, 1>>]
    /\ \A p \in Pixels \ {<<Centre, Centre>>} : img[p] = img[<<1, 1>>]

C9_RadiusMonotone ==
    \A i, j \in Inst :
        ( /\ Valid(i) /\ Valid(j) /\ Answered(i) /\ Answered(j)
          /\ ball_radius[i] < ball_radius[j]
          /\ smoothing_sigma[i] = smoothing_sigma[j]
          /\ ret[i].op = "estimateBG" /\ ret[j].op = "estimateBG"
          /\ ret[i].img = ret[j].img
          /\ IsSpike(ImageOf(i)) ) =>
            ArrayMax(ret[j].val) <= ArrayMax(ret[i].val)

C9_Witness ==
    /\ Answered("a") /\ Answered("b")
    /\ ball_radius["a"] = 2 /\ ball_radius["b"] = 3
    /\ smoothing_sigma["a"] = smoothing_sigma["b"]
    /\ ret["a"].op = "estimateBG" /\ ret["b"].op = "estimateBG"
    /\ IsSpike(ImageOf("a"))
    /\ ArrayMax(ret["b"].val) < ArrayMax(ret["a"].val)

=============================================================================
